---- MODULE Spec2Model ----
(***************************************************************************)
(* cvbase/visualize.py: draw_bboxes and draw_bboxes_with_label.            *)
(*                                                                         *)
(* One call at a time runs through the function body, statement group by   *)
(* statement group.  The state is the call's activation frame (its         *)
(* parameters and locals, rebound as the code rebinds them), the list      *)
(* objects reachable from it (the caller's colors list and the list the    *)
(* comprehension of line 51 builds), and the log of the calls made to the  *)
(* drawing and image collaborators (rectangle, text, show, save).          *)
(*                                                                         *)
(* Numbers held in box arrays are fixed-point: the integer v stands for    *)
(* the float v / 1000.  Arrays produced by astype(np.int32) hold plain     *)
(* integers.                                                               *)
(***************************************************************************)
EXTENDS Integers, Sequences, FiniteSets, TLC

VARIABLES
    args,   \* the arguments as the caller passed them (never written by a step)
    frame,  \* the activation frame: pc, parameters and locals
    heap,   \* list objects: "arg" = the caller's colors list, "local" = line 51's list
    log     \* calls made so far to draw.rectangle, draw.text, img.show, img.save

vars == <<args, frame, heap, log>>

(***************************************************************************)
(* Bounds of the model.                                                    *)
(***************************************************************************)
MaxGroups == 2      \* box groups per call: 0..MaxGroups
MaxRows == 2        \* boxes per group: 0..MaxRows
MaxTopK == 2        \* top_k ranges over -1..MaxTopK

(***************************************************************************)
(* class Color(Enum)                                                       *)
(***************************************************************************)
ColorNames ==
    {"red", "green", "blue", "cyan", "yellow", "magenta", "white", "black"}

Tuple(items) == [kind |-> "tuple", items |-> items]

ColorMember(name) == [kind |-> "Color", name |-> name]

\* Color.<name>.value
ColorValue(c) ==
    CASE c.name = "red"     -> Tuple(<<0, 0, 255>>)
      [] c.name = "green"   -> Tuple(<<0, 255, 0>>)
      [] c.name = "blue"    -> Tuple(<<255, 0, 0>>)
      [] c.name = "cyan"    -> Tuple(<<255, 255, 0>>)
      [] c.name = "yellow"  -> Tuple(<<0, 255, 255>>)
      [] c.name = "magenta" -> Tuple(<<255, 0, 255>>)
      [] c.name = "white"   -> Tuple(<<255, 255, 255>>)
      [] c.name = "black"   -> Tuple(<<0, 0, 0>>)

(***************************************************************************)
(* numpy arrays of shape (n, cols) and the conversions applied to them.    *)
(***************************************************************************)
Array(cols, rows) == [cols |-> cols, rows |-> rows]

Shape0(a) == Len(a.rows)

Shape1(a) == a.cols

\* float -> np.int32: truncation toward zero (the values used stay far inside 32 bits)
TruncInt32(v) == IF v >= 0 THEN v \div (10 * 100) ELSE -((-v) \div (10 * 100))

\* a.astype(np.int32)
AsTypeInt32(a) ==
    Array(a.cols, [r \in 1..Len(a.rows) |->
                      [c \in 1..Len(a.rows[r]) |-> TruncInt32(a.rows[r][c])]])

\* a[:, :4]
FirstFourCols(a) ==
    Array(IF a.cols < 4 THEN a.cols ELSE 4,
          [r \in 1..Len(a.rows) |->
              SubSeq(a.rows[r], 1, IF a.cols < 4 THEN a.cols ELSE 4)])

\* '{:.02f}'.format(v) for v >= 0: correctly rounded to hundredths, ties to even
\* (every tie the model feeds it is exactly representable in binary)
Format2f(v) ==
    LET q == v \div 10
        r == v % 10
        h == IF r > 5 \/ (r = 5 /\ q % 2 = 1) THEN q + 1 ELSE q
    IN  ToString(h \div 100) \o "." \o ToString((h % 100) \div 10) \o ToString(h % 10)

\* '{}|{:.02f}'.format(name, score)
LabelWithScore(name, score) == name \o "|" \o Format2f(score)

(***************************************************************************)
(* Collaborators outside the file.                                         *)
(***************************************************************************)
FileExists(path) == path \in {"a.jpg", "labels.txt"}

FileLabels(path) == <<"cat", "dog">>

\* cvbase.conversion.is_list_of(bboxes, np.ndarray); every item of the model is an array
is_list_of(b) == b.kind = "list"

\* cvbase.det.labels.read_labels: a list passes through, a path is read
read_labels(labels) ==
    IF labels.kind = "list" THEN labels.names ELSE FileLabels(labels.path)

\* len(bboxes)
LenBboxes(b) == IF b.kind = "ndarray" THEN Shape0(b.arr) ELSE Len(b.items)

(***************************************************************************)
(* Machine states and how a step changes them.                             *)
(***************************************************************************)
Machine(f, h, l) == [frame |-> f, heap |-> h, log |-> l]

Bind(f, r) == r @@ f

Goto(M, pc, binds) == Machine(Bind(Bind(M.frame, binds), [pc |-> pc]), M.heap, M.log)

Raise(M, exc, line) ==
    Machine(Bind(M.frame, [pc |-> "raised", exc |-> exc, line |-> line]), M.heap, M.log)

Emit(M, call) == Machine(M.frame, M.heap, Append(M.log, call))

RectangleCall(coords, color, thickness) ==
    [fn |-> "rectangle", coords |-> coords, color |-> color, thickness |-> thickness]

TextCall(text, pos, color, font_size) ==
    [fn |-> "text", text |-> text, pos |-> pos, color |-> color, font_size |-> font_size]

ShowCall(win_name, wait_time) ==
    [fn |-> "show", win_name |-> win_name, wait_time |-> wait_time]

SaveCall(out_file) == [fn |-> "save", out_file |-> out_file]

\* a[j, :] of a 2-D array is 1-D; the array itself is 2-D
Row1D(a, j) == [ndim |-> 1, data |-> a.rows[j + 1]]

Whole2D(a) == [ndim |-> 2, data |-> a.rows]

(***************************************************************************)
(* Lines 41-46 and 90-95: the image reference becomes an Image handle.     *)
(***************************************************************************)
NormalizeImage(M) ==
    LET f == M.frame
        first == IF f.op = "draw_bboxes" THEN 41 ELSE 90
        next == IF f.op = "draw_bboxes" THEN "boxes" ELSE "labels"
        handle == [kind |-> "Image"]
    IN  CASE f.img.kind = "str" ->
                IF FileExists(f.img.path)
                THEN Goto(M, next, [img |-> handle, draw |-> "ImageDraw"])
                ELSE Raise(M, "IOError", first + 1)
          [] f.img.kind = "ndarray" ->
                Goto(M, next, [img |-> handle, draw |-> "ImageDraw"])
          [] f.img.kind = "Image" ->
                Goto(M, next, [draw |-> "ImageDraw"])
          [] OTHER -> Raise(M, "AssertionError", first + 4)

(***************************************************************************)
(* draw_bboxes, lines 47-49.                                               *)
(***************************************************************************)
\* the wrapping of line 48 left out
WrapSingleArray_Forgotten(b) == b

WrapSingleArray(b) ==
    IF b.kind = "ndarray" THEN [kind |-> "list", items |-> <<b.arr>>] ELSE b

NormalizeBoxes(M) ==
    LET b == WrapSingleArray(M.frame.bboxes)
    IN  IF is_list_of(b)
        THEN Goto(M, "colors", [bboxes |-> b])
        ELSE Raise(Goto(M, "colors", [bboxes |-> b]), "AssertionError", 49)

(***************************************************************************)
(* draw_bboxes, lines 50-55.                                               *)
(***************************************************************************)
\* line 50
IsScalarColor(c) == c.kind \in {"tuple", "Color"}

\* one copy, whatever the number of groups
Broadcast_Once(c, n) == <<c>>

\* line 51: [colors for _ in range(len(bboxes))]
Broadcast(c, n) == [k \in 1..n |-> c]

\* lines 52-54, applied to the list object in place
ResolveEntries(s) ==
    [k \in 1..Len(s) |-> IF s[k].kind = "Color" THEN ColorValue(s[k]) ELSE s[k]]

NormalizeColors(M) ==
    LET f == M.frame
        n == Len(f.bboxes.items)
        ref == IF IsScalarColor(f.colors) THEN "local" ELSE f.colors.ref
        h1 == IF IsScalarColor(f.colors)
              THEN Bind(M.heap, [local |-> Broadcast(f.colors, n)])
              ELSE M.heap
        h2 == [h1 EXCEPT ![ref] = ResolveEntries(h1[ref])]
        M2 == Machine(Bind(f, [colors |-> [kind |-> "list", ref |-> ref]]), h2, M.log)
    IN  IF n = Len(h2[ref])
        THEN Goto(M2, "group", [it_i |-> 0])
        ELSE Raise(M2, "AssertionError", 55)

(***************************************************************************)
(* Lines 59-62 and 104-107.                                                *)
(***************************************************************************)
Min(a, b) == IF a < b THEN a ELSE b

\* top_k = 0 taken as a cap of zero boxes
EffectiveCount_ZeroCaps(top_k, size) == IF top_k < 0 THEN size ELSE Min(top_k, size)

EffectiveCount(top_k, size) == IF top_k <= 0 THEN size ELSE Min(top_k, size)

(***************************************************************************)
(* draw_bboxes, lines 57-64.                                               *)
(***************************************************************************)
NextGroup(M) ==
    LET f == M.frame
    IN  IF f.it_i < Len(f.bboxes.items)
        THEN LET b == f.bboxes.items[f.it_i + 1]
             IN  Goto(M, "box", [i |-> f.it_i, it_i |-> f.it_i + 1, _bboxes |-> b,
                                 bboxes_int |-> AsTypeInt32(b),
                                 _top_k |-> EffectiveCount(f.top_k, Shape0(b)),
                                 it_j |-> 0])
        ELSE Goto(M, "show", <<>>)

\* every group drawn in the first colour
RectangleArgs_FirstColor(f, h) ==
    RectangleCall(Row1D(f.bboxes_int, f.it_j), h[f.colors.ref][1], f.thickness)

\* the arguments of line 64's call
RectangleArgs(f, h) ==
    RectangleCall(Row1D(f.bboxes_int, f.it_j), h[f.colors.ref][f.i + 1], f.thickness)

DrawRectangle(M) ==
    LET f == M.frame
    IN  IF f.it_j < f._top_k
        THEN Emit(Goto(M, "box", [j |-> f.it_j, it_j |-> f.it_j + 1]),
                  RectangleArgs(f, M.heap))
        ELSE Goto(M, "group", <<>>)

(***************************************************************************)
(* Lines 65-68 and 118-121.                                                *)
(***************************************************************************)
\* the show flag ignored
Show_Always(M) ==
    Emit(Goto(M, "save", <<>>), ShowCall(M.frame.win_name, M.frame.wait_time))

Show(M) ==
    IF M.frame.show
    THEN Emit(Goto(M, "save", <<>>), ShowCall(M.frame.win_name, M.frame.wait_time))
    ELSE Goto(M, "save", <<>>)

\* nothing written when nothing was drawn
Save_OnlyIfDrawn(M) ==
    IF M.frame.out_file # "None" /\ \E k \in 1..Len(M.log) : M.log[k].fn = "rectangle"
    THEN Emit(Goto(M, "returned", <<>>), SaveCall(M.frame.out_file))
    ELSE Goto(M, "returned", <<>>)

Save(M) ==
    IF M.frame.out_file # "None"
    THEN Emit(Goto(M, "returned", <<>>), SaveCall(M.frame.out_file))
    ELSE Goto(M, "returned", <<>>)

(***************************************************************************)
(* draw_bboxes_with_label, line 96.                                        *)
(***************************************************************************)
ReadLabels(M) ==
    LET l == M.frame.labels
    IN  IF l.kind = "str" /\ ~FileExists(l.path)
        THEN Raise(M, "IOError", 96)
        ELSE Goto(M, "colors", [label_names |-> read_labels(l)])

(***************************************************************************)
(* draw_bboxes_with_label, lines 97-101.                                   *)
(***************************************************************************)
ResolveColor(c) == IF c.kind = "Color" THEN ColorValue(c) ELSE c

\* the check of line 101 left out
ResolveColors_NoCheck(M) ==
    Goto(M, "group", [bbox_color |-> ResolveColor(M.frame.bbox_color),
                      text_color |-> ResolveColor(M.frame.text_color),
                      it_i |-> 0])

ResolveColors(M) ==
    LET f == M.frame
        M2 == Goto(M, "group", [bbox_color |-> ResolveColor(f.bbox_color),
                                text_color |-> ResolveColor(f.text_color),
                                it_i |-> 0])
    IN  IF LenBboxes(f.bboxes) = Len(f.label_names)
        THEN M2
        ELSE Raise(M2, "AssertionError", 101)

(***************************************************************************)
(* draw_bboxes_with_label, lines 102-117.                                  *)
(***************************************************************************)
NextGroupL(M) ==
    LET f == M.frame
    IN  IF f.it_i < LenBboxes(f.bboxes)
        THEN IF f.bboxes.kind = "ndarray"
             THEN \* iterating a 2-D array yields 1-D rows; row[:, :4] is an IndexError
                  Raise(Goto(M, "group", [i |-> f.it_i, it_i |-> f.it_i + 1]),
                        "IndexError", 103)
             ELSE LET b == f.bboxes.items[f.it_i + 1]
                  IN  Goto(M, "box", [i |-> f.it_i, it_i |-> f.it_i + 1, _bboxes |-> b,
                                      bboxes_int |-> AsTypeInt32(FirstFourCols(b)),
                                      _top_k |-> EffectiveCount(f.top_k, Shape0(b)),
                                      it_j |-> 0])
        ELSE Goto(M, "show", <<>>)

\* the arguments of line 109's call
RectangleArgsL(f) == RectangleCall(Whole2D(f.bboxes_int), f.bbox_color, f.thickness)

DrawRectangleL(M) ==
    LET f == M.frame
    IN  IF f.it_j < f._top_k
        THEN Emit(Goto(M, "text", [j |-> f.it_j, it_j |-> f.it_j + 1]),
                  RectangleArgsL(f))
        ELSE Goto(M, "group", <<>>)

\* the score of the group's first box in every text
LabelText_FirstScore(f) ==
    IF Shape1(f._bboxes) > 4
    THEN LabelWithScore(f.label_names[f.i + 1], f._bboxes.rows[1][5])
    ELSE f.label_names[f.i + 1]

\* lines 110-113
LabelText(f) ==
    IF Shape1(f._bboxes) > 4
    THEN LabelWithScore(f.label_names[f.i + 1], f._bboxes.rows[f.j + 1][5])
    ELSE f.label_names[f.i + 1]

\* lines 114-117
TextArgs(f) ==
    TextCall(LabelText(f),
             <<f.bboxes_int.rows[f.j + 1][1], f.bboxes_int.rows[f.j + 1][2] - 2>>,
             f.text_color, f.font_size)

DrawText(M) == Emit(Goto(M, "box", <<>>), TextArgs(M.frame))

(***************************************************************************)
(* The argument values the calls are made with.                            *)
(***************************************************************************)
\* the k-th box of the pool; the 5th column is a confidence score
PoolRow(k) ==
    CASE k = 1 -> <<10000, 20000, 50000, 60000, 870>>
      [] k = 2 -> <<-3500, 7900, 40500, 41999, 125>>
      [] k = 3 -> <<0, -500, 9999, 12000, 999>>
      [] OTHER -> <<1500 * k, 2500 * k, 3500 * k + 750, 4500 * k, 375>>

\* an array of n boxes with cols columns, starting at the pool's box number from
PoolArray(cols, n, from) ==
    Array(cols, [r \in 1..n |-> SubSeq(PoolRow(from + r - 1), 1, cols)])

\* group g of a list holds sizes[g] boxes; its columns alternate from cols1
GroupList(cols1, sizes) ==
    [g \in 1..Len(sizes) |->
        PoolArray(IF g % 2 = 1 THEN cols1 ELSE 9 - cols1, sizes[g], g)]

SeqsUpTo(S, n) == UNION {[1..k -> S] : k \in 0..n}

BboxesArgs ==
    {[kind |-> "ndarray", arr |-> PoolArray(c, n, 1)] : c \in {4, 5}, n \in 0..MaxRows}
    \cup {[kind |-> "list", items |-> GroupList(c, s)] :
             c \in {4, 5}, s \in SeqsUpTo(0..MaxRows, MaxGroups)}
    \cup {[kind |-> "tuple", items |-> GroupList(4, <<MaxRows>>)]}

ScalarColorArgs == {ColorMember("red"), ColorMember("green"), Tuple(<<7, 8, 9>>)}

ColorEntries == {ColorMember("red"), Tuple(<<7, 8, 9>>)}

\* tuples holding one Color per group, for one and for two groups
ColorTupleArgs ==
    {Tuple(<<ColorMember("red")>>), Tuple(<<ColorMember("red"), ColorMember("blue")>>)}

ColorsArgs ==
    ScalarColorArgs
    \cup {[kind |-> "list", elems |-> s] : s \in SeqsUpTo(ColorEntries, MaxGroups)}
    \cup ColorTupleArgs

ImgArgs ==
    {[kind |-> "str", path |-> "a.jpg"], [kind |-> "str", path |-> "missing.jpg"],
     [kind |-> "ndarray"], [kind |-> "Image"], [kind |-> "None"]}

TopKArgs == -1..MaxTopK

OutFileArgs == {"None", "out.jpg"}

AllLabels == <<"cat", "dog", "bird", "fish", "frog">>

LabelsArgs ==
    {[kind |-> "list", names |-> SubSeq(AllLabels, 1, n)] : n \in 0..MaxGroups}
    \cup {[kind |-> "str", path |-> "labels.txt"],
          [kind |-> "str", path |-> "missing.txt"]}

ColorPairArgs ==
    {<<ColorMember("green"), ColorMember("red")>>,
     <<Tuple(<<7, 8, 9>>), ColorMember("blue")>>,
     <<ColorMember("cyan"), Tuple(<<1, 2, 3>>)>>}

(***************************************************************************)
(* The state machine.                                                      *)
(***************************************************************************)
Idle == [pc |-> "idle"]

NoArgs == [op |-> "none"]

Init ==
    /\ args = NoArgs
    /\ frame = Idle
    /\ heap = <<>>
    /\ log = <<>>

\* the frame a call starts with: parameters bound to the arguments; a list
\* argument is bound by reference
EntryFrame(a) ==
    IF a.op = "draw_bboxes"
    THEN Bind([a EXCEPT !.colors = IF a.colors.kind = "list"
                                   THEN [kind |-> "list", ref |-> "arg"]
                                   ELSE a.colors],
              [pc |-> "image"])
    ELSE Bind(a, [pc |-> "image"])

EntryHeap(a) ==
    IF a.op = "draw_bboxes" /\ a.colors.kind = "list"
    THEN [arg |-> a.colors.elems]
    ELSE <<>>

Entry(a) == Machine(EntryFrame(a), EntryHeap(a), <<>>)

Current == Machine(frame, heap, log)

Becomes(M) ==
    /\ frame' = M.frame
    /\ heap' = M.heap
    /\ log' = M.log
    /\ UNCHANGED args

Enter(a) ==
    /\ args' = a
    /\ frame' = Entry(a).frame
    /\ heap' = Entry(a).heap
    /\ log' = Entry(a).log

Call_draw_bboxes ==
    /\ frame.pc = "idle"
    /\ \E img \in ImgArgs, bboxes \in BboxesArgs, colors \in ColorsArgs,
       top_k \in TopKArgs, show \in BOOLEAN, out_file \in OutFileArgs :
        Enter([op |-> "draw_bboxes", img |-> img, bboxes |-> bboxes, colors |-> colors,
               top_k |-> top_k, thickness |-> 1, show |-> show, win_name |-> "",
               wait_time |-> 0, out_file |-> out_file])

Call_draw_bboxes_with_label ==
    /\ frame.pc = "idle"
    /\ \E img \in ImgArgs, bboxes \in BboxesArgs, labels \in LabelsArgs,
       top_k \in TopKArgs, cp \in ColorPairArgs, show \in BOOLEAN,
       out_file \in OutFileArgs :
        Enter([op |-> "draw_bboxes_with_label", img |-> img, bboxes |-> bboxes,
               labels |-> labels, top_k |-> top_k, bbox_color |-> cp[1],
               text_color |-> cp[2], thickness |-> 1, font_size |-> 12,
               show |-> show, win_name |-> "", wait_time |-> 0,
               out_file |-> out_file])

At(op, pc) == frame.pc = pc /\ frame.op = op

StepImage == frame.pc = "image" /\ Becomes(NormalizeImage(Current))

StepBoxes == At("draw_bboxes", "boxes") /\ Becomes(NormalizeBoxes(Current))

StepColors == At("draw_bboxes", "colors") /\ Becomes(NormalizeColors(Current))

StepGroup == At("draw_bboxes", "group") /\ Becomes(NextGroup(Current))

StepRectangle == At("draw_bboxes", "box") /\ Becomes(DrawRectangle(Current))

StepLabels == At("draw_bboxes_with_label", "labels") /\ Becomes(ReadLabels(Current))

StepColorsL ==
    At("draw_bboxes_with_label", "colors") /\ Becomes(ResolveColors(Current))

StepGroupL == At("draw_bboxes_with_label", "group") /\ Becomes(NextGroupL(Current))

StepRectangleL ==
    At("draw_bboxes_with_label", "box") /\ Becomes(DrawRectangleL(Current))

StepText == At("draw_bboxes_with_label", "text") /\ Becomes(DrawText(Current))

StepShow == frame.pc = "show" /\ Becomes(Show(Current))

StepSave == frame.pc = "save" /\ Becomes(Save(Current))

\* the call is over (it returned None or raised); the caller's objects stay
Return ==
    /\ frame.pc \in {"returned", "raised"}
    /\ frame' = Idle
    /\ args' = NoArgs
    /\ heap' = <<>>
    /\ log' = <<>>

Next ==
    \/ Call_draw_bboxes
    \/ Call_draw_bboxes_with_label
    \/ StepImage
    \/ StepBoxes
    \/ StepColors
    \/ StepGroup
    \/ StepRectangle
    \/ StepLabels
    \/ StepColorsL
    \/ StepGroupL
    \/ StepRectangleL
    \/ StepText
    \/ StepShow
    \/ StepSave
    \/ Return

Spec == Init /\ [][Next]_vars

(***************************************************************************)
(* The function body as one function of the entry state: the statement     *)
(* group at the frame's pc, repeated until the call returns or raises.     *)
(***************************************************************************)
Step(M) ==
    LET pc == M.frame.pc
        plain == M.frame.op = "draw_bboxes"
    IN  CASE pc = "image"  -> NormalizeImage(M)
          [] pc = "boxes"  -> NormalizeBoxes(M)
          [] pc = "labels" -> ReadLabels(M)
          [] pc = "colors" -> IF plain THEN NormalizeColors(M) ELSE ResolveColors(M)
          [] pc = "group"  -> IF plain THEN NextGroup(M) ELSE NextGroupL(M)
          [] pc = "box"    -> IF plain THEN DrawRectangle(M) ELSE DrawRectangleL(M)
          [] pc = "text"   -> DrawText(M)
          [] pc = "show"   -> Show(M)
          [] pc = "save"   -> Save(M)

RECURSIVE Run(_)
Run(M) == IF M.frame.pc \in {"returned", "raised"} THEN M ELSE Run(Step(M))

(***************************************************************************)
(* What the properties below speak about.                                  *)
(***************************************************************************)
Plain == args.op = "draw_bboxes"

Labelled == args.op = "draw_bboxes_with_label"

Returned == frame.pc = "returned"

Raised == frame.pc = "raised"

\* the call is past its checks: in the drawing loops or after them
DrawPhase == frame.pc \in {"group", "box", "text", "show", "save", "returned"}

AfterLoops == frame.pc \in {"show", "save", "returned"}

\* the box groups of the call, as passed
ArgGroups ==
    IF args.bboxes.kind = "ndarray"
    THEN IF Plain THEN <<args.bboxes.arr>> ELSE <<>>
    ELSE args.bboxes.items

CallsTo(fn) == SelectSeq(log, LAMBDA c : c.fn = fn)

ClaimedCount(top_k, size) ==
    IF top_k > 0 THEN (IF top_k < size THEN top_k ELSE size) ELSE size

RECURSIVE ClaimedTotal(_)
\* boxes claimed to be processed in the first n groups
ClaimedTotal(n) ==
    IF n = 0 THEN 0
    ELSE ClaimedTotal(n - 1) + ClaimedCount(args.top_k, Len(ArgGroups[n].rows))

ImageAccepted == args.img.kind \in {"str", "ndarray", "Image"}

ImageUsable == ImageAccepted /\ (args.img.kind = "str" => FileExists(args.img.path))

ScalarColors == args.colors.kind \in {"Color", "tuple"}

RawTriple(c) == IF c.kind = "Color" THEN ColorValue(c) ELSE c

ExpectedTail ==
    (IF args.show THEN <<ShowCall(args.win_name, args.wait_time)>> ELSE <<>>)
    \o (IF args.out_file # "None" THEN <<SaveCall(args.out_file)>> ELSE <<>>)

(***************************************************************************)
(* C1.  In both operations, for every box group: when top_k <= 0 the       *)
(* number of boxes processed for the group is the group's size, and when   *)
(* top_k > 0 it is min(top_k, group size).  Stated on the running counts:  *)
(* each time the outer loop is between groups, and after it, the number of *)
(* rectangle calls (and, with labels, of text calls) made so far is the    *)
(* sum of those counts over the groups processed so far; inside a group    *)
(* the inner loop has never gone past the group's count.                   *)
(***************************************************************************)
C1_ProcessedCount ==
    LET rects == Len(CallsTo("rectangle"))
        texts == Len(CallsTo("text"))
    IN  /\ frame.pc = "group" =>
              /\ rects = ClaimedTotal(frame.it_i)
              /\ Labelled => texts = ClaimedTotal(frame.it_i)
        /\ frame.pc = "box" =>
              /\ rects = ClaimedTotal(frame.it_i - 1) + frame.it_j
              /\ frame.it_j <= ClaimedCount(args.top_k, Len(ArgGroups[frame.it_i].rows))
              /\ Labelled => texts = rects
        /\ AfterLoops =>
              /\ rects = ClaimedTotal(Len(ArgGroups))
              /\ Labelled => texts = rects

\* a labelled call between groups, after a first group cut to top_k and a
\* second group shorter than top_k
C1_Witness ==
    /\ Labelled
    /\ frame.pc = "group"
    /\ frame.it_i = 2
    /\ args.top_k = 1
    /\ Len(ArgGroups[1].rows) = 2
    /\ Len(ArgGroups[2].rows) = 2
    /\ Len(CallsTo("text")) = 2

CardinalityOK ==
    IF Plain
    THEN ScalarColors \/ Len(args.colors.elems) = Len(ArgGroups)
    ELSE LenBboxes(args.bboxes) = Len(read_labels(args.labels))

(***************************************************************************)
(* C2.  A call that fails a contract check (image reference of an          *)
(* unaccepted form; colour count different from the group count in         *)
(* draw_bboxes; label count different from the group count in              *)
(* draw_bboxes_with_label) has made no rectangle, text, show or save call; *)
(* and no such call is ever made by a call whose arguments violate one of  *)
(* these contracts.                                                        *)
(***************************************************************************)
C2_FailFast ==
    /\ (Raised /\ frame.exc = "AssertionError") => log = <<>>
    /\ log # <<>> => ImageAccepted /\ CardinalityOK

\* the labelled call raised on the cardinality check although it had boxes to draw
C2_Witness ==
    /\ Labelled
    /\ Raised
    /\ frame.exc = "AssertionError"
    /\ frame.line = 101
    /\ Len(ArgGroups) = 2
    /\ Len(ArgGroups[1].rows) = 2

TwinArgs == [args EXCEPT !.bboxes = [kind |-> "list", items |-> <<args.bboxes.arr>>]]

(***************************************************************************)
(* C3.  draw_bboxes called with a single array B ends the way the same     *)
(* call with [B] in its place ends: the same outcome and the same sequence *)
(* of rectangle, show and save calls, with the same arguments.             *)
(***************************************************************************)
C3_SingleArrayAsOneGroup ==
    (Plain /\ args.bboxes.kind = "ndarray" /\ (Returned \/ Raised)) =>
        LET twin == Run(Entry(TwinArgs))
        IN  /\ log = twin.log
            /\ frame.pc = twin.frame.pc
            /\ Raised => frame.exc = twin.frame.exc /\ frame.line = twin.frame.line

C3_Witness ==
    /\ Plain
    /\ args.bboxes.kind = "ndarray"
    /\ Returned
    /\ Len(CallsTo("rectangle")) = 2
    /\ Len(CallsTo("show")) = 1
    /\ Len(CallsTo("save")) = 1

PastColors == DrawPhase \/ (Raised /\ frame.line = 55)

(***************************************************************************)
(* C4.  In draw_bboxes with a scalar colors argument (one Color or one     *)
(* tuple), once lines 50-55 have run the colour list has one entry per box *)
(* group, every entry is the scalar's raw triple, and the cardinality      *)
(* check has not failed.                                                   *)
(***************************************************************************)
C4_ScalarBroadcast ==
    (Plain /\ ScalarColors /\ PastColors) =>
        /\ ~Raised
        /\ frame.colors.kind = "list"
        /\ Len(heap[frame.colors.ref]) = Len(ArgGroups)
        /\ \A k \in 1..Len(ArgGroups) : heap[frame.colors.ref][k] = RawTriple(args.colors)

C4_Witness ==
    /\ Plain
    /\ args.colors = ColorMember("red")
    /\ Len(ArgGroups) = 2
    /\ frame.pc = "show"
    /\ heap["local"] = <<Tuple(<<0, 0, 255>>), Tuple(<<0, 0, 255>>)>>

ClaimedText(g, r) ==
    LET name == read_labels(args.labels)[g]
        row == ArgGroups[g].rows[r]
    IN  IF Len(row) >= 5 THEN name \o "|" \o Format2f(row[5]) ELSE name

ClaimedGroupTexts(g) ==
    [r \in 1..ClaimedCount(args.top_k, Len(ArgGroups[g].rows)) |-> ClaimedText(g, r)]

RECURSIVE ClaimedTexts(_)
ClaimedTexts(n) ==
    IF n = 0 THEN <<>> ELSE ClaimedTexts(n - 1) \o ClaimedGroupTexts(n)

TextsDrawn == [k \in 1..Len(CallsTo("text")) |-> CallsTo("text")[k].text]

(***************************************************************************)
(* C5.  In draw_bboxes_with_label the text drawn for the j-th processed    *)
(* box of group i is label_names[i], followed by "|" and that box's own    *)
(* score to two decimals when the group's rows have a 5th column, and      *)
(* label_names[i] alone when they have 4 columns.                          *)
(***************************************************************************)
C5_LabelText ==
    (Labelled /\ DrawPhase) =>
        /\ TextsDrawn = SubSeq(ClaimedTexts(Len(ArgGroups)), 1, Len(TextsDrawn))
        /\ AfterLoops => TextsDrawn = ClaimedTexts(Len(ArgGroups))

\* a 5-column group labelled "cat" followed by a 4-column group labelled "dog"
C5_Witness ==
    /\ Labelled
    /\ Returned
    /\ args.top_k = 0
    /\ TextsDrawn = <<"cat|0.87", "cat|0.12", "dog", "dog">>

ZeroGroupsCall ==
    /\ frame.pc # "idle"
    /\ ImageUsable
    /\ IF Plain
       THEN /\ args.bboxes.kind = "list"
            /\ args.bboxes.items = <<>>
            /\ ScalarColors \/ args.colors.elems = <<>>
       ELSE /\ LenBboxes(args.bboxes) = 0
            /\ args.labels.kind = "list"
            /\ args.labels.names = <<>>

(***************************************************************************)
(* C6.  A call with zero box groups whose other arguments pass the checks  *)
(* (a usable image; in draw_bboxes a scalar colour or an empty colour      *)
(* list; in draw_bboxes_with_label zero labels) does not raise, makes no   *)
(* rectangle or text call, and returns having called show iff the show     *)
(* flag is set and save iff out_file is given.                             *)
(***************************************************************************)
C6_ZeroGroups ==
    ZeroGroupsCall =>
        /\ ~Raised
        /\ CallsTo("rectangle") = <<>>
        /\ CallsTo("text") = <<>>
        /\ Returned => log = ExpectedTail

C6_Witness ==
    /\ ZeroGroupsCall
    /\ Plain
    /\ Returned
    /\ log = <<ShowCall("", 0), SaveCall("out.jpg")>>

(***************************************************************************)
(* C7.  In every call that returns, show has been called exactly once if   *)
(* the show flag is set and never otherwise, save exactly once if out_file *)
(* is not None and never otherwise, no rectangle or text call follows a    *)
(* show or save call, and no show call follows a save call.                *)
(***************************************************************************)
C7_ShowThenSave ==
    Returned =>
        /\ Len(CallsTo("show")) = (IF args.show THEN 1 ELSE 0)
        /\ Len(CallsTo("save")) = (IF args.out_file # "None" THEN 1 ELSE 0)
        /\ \A p, q \in 1..Len(log) :
              p < q =>
                  /\ log[p].fn \in {"show", "save"} =>
                         log[q].fn \notin {"rectangle", "text"}
                  /\ log[p].fn = "save" => log[q].fn # "show"

C7_Witness ==
    /\ Returned
    /\ Labelled
    /\ Len(log) = 6
    /\ log[4].fn = "text"
    /\ log[5].fn = "show"
    /\ log[6].fn = "save"

\* the entries of a colors argument that is a sequence of colours
ColorSequence ==
    IF args.colors.kind = "list" THEN args.colors.elems ELSE args.colors.items

ClaimedRectangle(g, r) ==
    RectangleCall([ndim |-> 1,
                   data |-> [c \in 1..Len(ArgGroups[g].rows[r]) |->
                                TruncInt32(ArgGroups[g].rows[r][c])]],
                  RawTriple(ColorSequence[g]), args.thickness)

ClaimedGroupRectangles(g) ==
    [r \in 1..ClaimedCount(args.top_k, Len(ArgGroups[g].rows)) |-> ClaimedRectangle(g, r)]

RECURSIVE ClaimedRectangles(_)
ClaimedRectangles(n) ==
    IF n = 0 THEN <<>> ELSE ClaimedRectangles(n - 1) \o ClaimedGroupRectangles(n)

RectanglesAsClaimed ==
    LET drawn == CallsTo("rectangle")
        all == ClaimedRectangles(Len(ArgGroups))
    IN  /\ Len(drawn) <= Len(all)
        /\ drawn = SubSeq(all, 1, Len(drawn))
        /\ AfterLoops => drawn = all

\* colors is a list with one entry per group
ListColorsCall ==
    /\ Plain
    /\ args.colors.kind = "list"
    /\ args.bboxes.kind \in {"ndarray", "list"}
    /\ Len(args.colors.elems) = Len(ArgGroups)

\* colors is a list or a tuple with one colour entry per group
SequenceColorsCall ==
    /\ Plain
    /\ args.colors.kind = "list" \/ args.colors \in ColorTupleArgs
    /\ args.bboxes.kind \in {"ndarray", "list"}
    /\ Len(ColorSequence) = Len(ArgGroups)

(***************************************************************************)
(* C8 as stated.  In draw_bboxes with colors a sequence holding one entry  *)
(* per group (each a Color or a raw triple), the rectangle calls are,      *)
(* group by group in input order and row by row, the first effective-count *)
(* rows of each group, each call given that one row truncated to integers  *)
(* and the raw triple of that group's colour entry, never a Color member.  *)
(* Line 50 takes every tuple for one colour, so this fails for a tuple of  *)
(* Colors.                                                                 *)
(***************************************************************************)
C8_AnySequence == (SequenceColorsCall /\ DrawPhase) => RectanglesAsClaimed

(***************************************************************************)
(* C8, amended.  In draw_bboxes with colors a list holding one entry per   *)
(* group, the rectangle calls are, group by group in input order and row   *)
(* by row, the first effective-count rows of each group, each call given   *)
(* that one row truncated to integers, the raw triple of that group's      *)
(* colour entry and the thickness.                                         *)
(***************************************************************************)
C8_RectanglePerRow == (ListColorsCall /\ DrawPhase) => RectanglesAsClaimed

C8_Witness ==
    /\ ListColorsCall
    /\ Returned
    /\ args.colors.elems = <<Tuple(<<7, 8, 9>>), ColorMember("red")>>
    /\ args.top_k = 1
    /\ Len(ArgGroups[1].rows) = 2
    /\ ArgGroups[2].cols = 5
    /\ CallsTo("rectangle") =
          <<RectangleCall([ndim |-> 1, data |-> <<10, 20, 50, 60>>],
                          Tuple(<<7, 8, 9>>), 1),
            RectangleCall([ndim |-> 1, data |-> <<-3, 7, 40, 41, 0>>],
                          Tuple(<<0, 0, 255>>), 1)>>

RECURSIVE Flatten(_)
Flatten(rows) == IF rows = <<>> THEN <<>> ELSE Head(rows) \o Flatten(Tail(rows))

NumbersGiven(coords) == IF coords.ndim = 1 THEN coords.data ELSE Flatten(coords.data)

(***************************************************************************)
(* C9.  In draw_bboxes_with_label the rectangle call of iteration j of a   *)
(* group is given the j-th box of the group alone: the first four          *)
(* coordinates of row j truncated to integers, in the resolved bbox_color. *)
(* Stated on the state right after the call (the text of the same          *)
(* iteration is still to be drawn), and on the numbers the call is given:  *)
(* an array of shape (1, 4) holding row j counts as row j.                 *)
(***************************************************************************)
C9_RectangleIsRowJ ==
    (Labelled /\ frame.pc = "text") =>
        LET call == log[Len(log)]
            row == ArgGroups[frame.i + 1].rows[frame.j + 1]
        IN  /\ call.fn = "rectangle"
            /\ call.color = RawTriple(args.bbox_color)
            /\ NumbersGiven(call.coords) = [c \in 1..4 |-> TruncInt32(row[c])]

(***************************************************************************)
(* C10.  draw_bboxes leaves the caller's arguments as they were: when the  *)
(* call is over, by return or by a failed cardinality check, a colors list *)
(* passed by the caller holds the elements it held before the call.        *)
(***************************************************************************)
C10_ColorsListUntouched ==
    (Plain /\ args.colors.kind = "list" /\ (Returned \/ Raised)) =>
        heap["arg"] = args.colors.elems

====
